---- MODULE Spec2Model ----
(***************************************************************************)
(* A model of the hibp crate (src/lib.rs): check(password) digests the     *)
(* password with SHA-1, sends the first five hexadecimal characters of the *)
(* digest to the range endpoint, and searches the returned text for the    *)
(* remaining thirty-five characters followed by a colon and a count.       *)
(*                                                                         *)
(* Text is modelled as sequences of one-character strings, bytes as        *)
(* numbers 0..255 and 32-bit words as pairs of 16-bit halves, so that no   *)
(* arithmetic leaves TLC's integers.                                       *)
(***************************************************************************)
EXTENDS Integers, Sequences, FiniteSets, TLC

(***************************************************************************)
(* The bound of the model: the longest response body, in lines.            *)
(***************************************************************************)
MaxLines == 2

(***************************************************************************)
(* Powers of two, for shifts.                                              *)
(***************************************************************************)
Pow2(n) == 2 ^ n

(***************************************************************************)
(* SHA-1, as computed by Sha1::new().chain(password).result().             *)
(***************************************************************************)
\* A 32-bit word is <<hi, lo>>, its two 16-bit halves.
WordOfBytes(b4) == << 256 * b4[1] + b4[2], 256 * b4[3] + b4[4] >>

BytesOfWord(w) == << w[1] \div 256, w[1] % 256, w[2] \div 256, w[2] % 256 >>

RECURSIVE And16(_, _)
And16(a, b) ==
    IF a = 0 \/ b = 0 THEN 0
    ELSE ((a % 2) * (b % 2)) + (2 * And16(a \div 2, b \div 2))

Or16(a, b) == a + b - And16(a, b)
Xor16(a, b) == a + b - 2 * And16(a, b)

Xor32(a, b) == << Xor16(a[1], b[1]), Xor16(a[2], b[2]) >>
And32(a, b) == << And16(a[1], b[1]), And16(a[2], b[2]) >>
Or32(a, b) == << Or16(a[1], b[1]), Or16(a[2], b[2]) >>
Not32(a) == << 65535 - a[1], 65535 - a[2] >>

\* Rotation to the left by n bits, 0 < n < 32.
Rotl32(a, n) ==
    LET x == IF n >= 16 THEN << a[2], a[1] >> ELSE a
        k == n % 16
    IN  << ((x[1] * Pow2(k)) % 65536) + (x[2] \div Pow2(16 - k)),
           ((x[2] * Pow2(k)) % 65536) + (x[1] \div Pow2(16 - k)) >>

\* Addition modulo 2^32.
Add32(a, b) ==
    LET lo == a[2] + b[2]
    IN  << (a[1] + b[1] + (lo \div 65536)) % 65536, lo % 65536 >>

Sha1H0 ==
    << WordOfBytes(<<103, 69, 35, 1>>), WordOfBytes(<<239, 205, 171, 137>>),
       WordOfBytes(<<152, 186, 220, 254>>), WordOfBytes(<<16, 50, 84, 118>>),
       WordOfBytes(<<195, 210, 225, 240>>) >>

Sha1K(t) ==
    IF t < 20 THEN WordOfBytes(<<90, 130, 121, 153>>)
    ELSE IF t < 40 THEN WordOfBytes(<<110, 217, 235, 161>>)
    ELSE IF t < 60 THEN WordOfBytes(<<143, 27, 188, 220>>)
    ELSE WordOfBytes(<<202, 98, 193, 214>>)

Sha1F(t, b, c, d) ==
    IF t < 20 THEN Or32(And32(b, c), And32(Not32(b), d))
    ELSE IF t < 40 THEN Xor32(Xor32(b, c), d)
    ELSE IF t < 60 THEN Or32(Or32(And32(b, c), And32(b, d)), And32(c, d))
    ELSE Xor32(Xor32(b, c), d)

\* The message followed by 0x80, zero bytes up to 56 mod 64, and the bit
\* length as a 64-bit big-endian number (messages here are far below 2^24
\* bits, so the top five length bytes are zero).
RECURSIVE Zeros(_)
Zeros(n) == IF n = 0 THEN <<>> ELSE <<0>> \o Zeros(n - 1)

Sha1Pad(msg) ==
    LET n == Len(msg)
        zeros == (119 - n) % 64
        bitlen == 8 * n
    IN  msg \o <<128>> \o Zeros(zeros) \o <<0, 0, 0, 0, 0>>
            \o << (bitlen \div 65536) % 256, (bitlen \div 256) % 256, bitlen % 256 >>

\* The 80-word message schedule of one 64-byte block, grown from its
\* first 16 words.
RECURSIVE Sha1Schedule(_)
Sha1Schedule(w) ==
    IF Len(w) >= 80 THEN w
    ELSE LET t == Len(w) + 1
         IN  Sha1Schedule(
                Append(w, Rotl32(Xor32(Xor32(w[t - 3], w[t - 8]),
                                       Xor32(w[t - 14], w[t - 16])), 1)))

\* The rounds on the working variables v = <<a, b, c, d, e, t>>, t the
\* number of rounds done.
RECURSIVE Sha1Rounds(_, _)
Sha1Rounds(v, w) ==
    IF v[6] >= 80 THEN v
    ELSE LET t == v[6]
             temp == Add32(Add32(Add32(Rotl32(v[1], 5), Sha1F(t, v[2], v[3], v[4])),
                                 Add32(v[5], Sha1K(t))),
                           w[t + 1])
         IN  Sha1Rounds(<<temp, v[1], Rotl32(v[2], 30), v[3], v[4], t + 1>>, w)

RECURSIVE Words16(_)
Words16(bytes) ==
    IF bytes = <<>> THEN <<>>
    ELSE <<WordOfBytes(SubSeq(bytes, 1, 4))>> \o Words16(SubSeq(bytes, 5, Len(bytes)))

Sha1Block(h, block) ==
    LET w16 == Words16(block)
        w == Sha1Schedule(w16)
        v == Sha1Rounds(<<h[1], h[2], h[3], h[4], h[5], 0>>, w)
    IN  << Add32(h[1], v[1]), Add32(h[2], v[2]), Add32(h[3], v[3]),
           Add32(h[4], v[4]), Add32(h[5], v[5]) >>

RECURSIVE Sha1Blocks(_, _)
Sha1Blocks(h, bytes) ==
    IF bytes = <<>> THEN h
    ELSE Sha1Blocks(Sha1Block(h, SubSeq(bytes, 1, 64)), SubSeq(bytes, 65, Len(bytes)))

\* The 20 bytes of the digest.
Sha1(msg) ==
    LET h == Sha1Blocks(Sha1H0, Sha1Pad(msg))
    IN  BytesOfWord(h[1]) \o BytesOfWord(h[2]) \o BytesOfWord(h[3])
            \o BytesOfWord(h[4]) \o BytesOfWord(h[5])

(***************************************************************************)
(* format!("{:X}", hash): two upper-case hexadecimal characters per byte.  *)
(***************************************************************************)
HexChars ==
    << "0", "1", "2", "3", "4", "5", "6", "7", "8", "9", "A", "B", "C", "D", "E", "F" >>

\* As UpperHexByte, without the leading zero of a byte below 16.
UpperHexByteUnpadded(b) ==
    IF b < 16 THEN << HexChars[b + 1] >>
    ELSE << HexChars[(b \div 16) + 1], HexChars[(b % 16) + 1] >>

UpperHexByte(b) == << HexChars[(b \div 16) + 1], HexChars[(b % 16) + 1] >>

RECURSIVE UpperHex(_)
UpperHex(bytes) ==
    IF bytes = <<>> THEN <<>> ELSE UpperHexByte(Head(bytes)) \o UpperHex(Tail(bytes))

(***************************************************************************)
(* The passwords of the model, as byte strings: "test" (the crate's own    *)
(* example), "7p25" (its digest starts with the same five characters as    *)
(* that of "test"), the empty password and "a".                            *)
(***************************************************************************)
Passwords == { <<116, 101, 115, 116>>, <<55, 112, 50, 53>>, <<>>, <<97>> }

\* The digest of each password, computed once.
DigestOf == [p \in Passwords |-> Sha1(p)]

\* fn hash(password) -> (hex[0..5], hex[5..]). Slicing a string shorter
\* than five characters panics.
Panicked == <<>>

hash(password) ==
    LET hex == UpperHex(DigestOf[password])
    IN  IF Len(hex) < 5 THEN Panicked
        ELSE << SubSeq(hex, 1, 5), SubSeq(hex, 6, Len(hex)) >>

(***************************************************************************)
(* The request: format!("https://api.pwnedpasswords.com/range/{}", hash.0) *)
(* handed to reqwest::get, which sends a GET without a body.               *)
(***************************************************************************)
RangeUrlBase ==
    << "h", "t", "t", "p", "s", ":", "/", "/", "a", "p", "i", ".", "p",
       "w", "n", "e", "d", "p", "a", "s", "s", "w", "o", "r", "d", "s",
       ".", "c", "o", "m", "/", "r", "a", "n", "g", "e", "/" >>

\* As RangeUrl, with the whole digest in the path.
RangeUrlWholeDigest(h) == RangeUrlBase \o h[1] \o h[2]

RangeUrl(h) == RangeUrlBase \o h[1]

GetRequest(u) == [method |-> "GET", url |-> u, body |-> <<>>]

(***************************************************************************)
(* The regular expression format!(r"{}:(\d+)", hash.1) and its search.     *)
(***************************************************************************)
AsciiDigits == { "0", "1", "2", "3", "4", "5", "6", "7", "8", "9" }

\* \d of the regex crate is Unicode-aware: it matches every decimal digit
\* of Unicode; "U+0663" stands for one that is not ASCII (ARABIC-INDIC
\* DIGIT THREE).
RegexDigit(c) == c \in AsciiDigits \cup { "U+0663" }

Count(text, c) == Cardinality({ i \in 1 .. Len(text) : text[i] = c })

\* Regex::new fails on a pattern that is not well formed; of the characters
\* a pattern can hold, the model knows the group delimiters. The literal
\* interpolated is followed by the balanced group (\d+).
RegexNewFails(literal) == Count(literal, "(") # Count(literal, ")")

\* Whether literal:(\d+) matches text starting at position i.
MatchesAt(literal, text, i) ==
    /\ i + Len(literal) + 1 <= Len(text)
    /\ text[i + Len(literal)] = ":"
    /\ RegexDigit(text[i + Len(literal) + 1])
    /\ SubSeq(text, i, i + Len(literal) - 1) = literal

\* The longest run of \d characters of text from position j on (\d+ is
\* greedy).
RECURSIVE DigitRun(_, _)
DigitRun(text, j) ==
    IF j <= Len(text) /\ RegexDigit(text[j])
    THEN <<text[j]>> \o DigitRun(text, j + 1)
    ELSE <<>>

None == <<>>
Some(x) == <<x>>

\* reg.captures(&response): the leftmost match anywhere in the text, as
\* Some(group 1) or None.
RegexCaptures(literal, text) ==
    LET starts == { i \in 1 .. Len(text) : MatchesAt(literal, text, i) }
    IN  IF starts = {} THEN None
        ELSE LET i == CHOOSE k \in starts : \A m \in starts : k <= m
             IN  Some(DigitRun(text, i + Len(literal) + 1))

(***************************************************************************)
(* str::parse::<i32>() on the captured text.                               *)
(***************************************************************************)
I32Max == 2147483647

DigitValue(c) ==
    CASE c = "0" -> 0 [] c = "1" -> 1 [] c = "2" -> 2 [] c = "3" -> 3 [] c = "4" -> 4
      [] c = "5" -> 5 [] c = "6" -> 6 [] c = "7" -> 7 [] c = "8" -> 8 [] c = "9" -> 9

\* Digit by digit with checked multiplication and addition; acc is
\* <<value>> so far, or None after a failure.
RECURSIVE ParseDigits(_, _)
ParseDigits(text, acc) ==
    IF acc = None \/ text = <<>> THEN acc
    ELSE LET c == Head(text)
         IN  IF c \notin AsciiDigits THEN None
             ELSE IF acc[1] > I32Max \div 10 THEN None
             ELSE IF acc[1] * 10 > I32Max - DigitValue(c) THEN None
             ELSE ParseDigits(Tail(text), Some(acc[1] * 10 + DigitValue(c)))

\* Ok(n) is Some(n); Err(ParseIntError) is None. The empty text is an error.
ParseI32(text) == IF text = <<>> THEN None ELSE ParseDigits(text, Some(0))

(***************************************************************************)
(* The outcomes of check: Result<(), Error>.                               *)
(***************************************************************************)
NoResult == [tag |-> "none"]
OkUnit == [tag |-> "Ok"]
ErrPwned(uses) == [tag |-> "Pwned", uses |-> uses]
ErrParse == [tag |-> "Parse"]
ErrReqwest(kind) == [tag |-> "Reqwest", kind |-> kind]
ErrRegex == [tag |-> "Regex"]
\* Not a value of Result: the call unwinds.
Panic == [tag |-> "panic"]

\* As Classify, with parse().unwrap() in place of parse()?.
ClassifyUnwrap(caps) ==
    IF caps = None THEN OkUnit
    ELSE LET uses == ParseI32(caps[1])
         IN  IF uses = None THEN Panic ELSE ErrPwned(uses[1])

\* match reg.captures(&response) { Some(c) => ..., None => Ok(()) }
Classify(caps) ==
    IF caps = None THEN OkUnit
    ELSE LET uses == ParseI32(caps[1])
         IN  IF uses = None THEN ErrParse ELSE ErrPwned(uses[1])

(***************************************************************************)
(* What the network can answer. A response body is up to MaxLines lines,   *)
(* each ended by a line feed. The lines are built from the two suffixes of *)
(* the range A94A8 the model knows (those of "test" and "7p25").           *)
(***************************************************************************)
TestSuffix == hash(<<116, 101, 115, 116>>)[2]
OtherSuffix == hash(<<55, 112, 50, 53>>)[2]

\* The texts that follow "<suffix of test>:" on a line: counts (among them
\* 0 and the two around the largest i32), and texts that are no count.
CountTexts ==
    { <<"0">>, <<"4", "2">>, <<"4", "2", "\r">>,
      <<"2", "1", "4", "7", "4", "8", "3", "6", "4", "7">>,
      <<"2", "1", "4", "7", "4", "8", "3", "6", "4", "8">>,
      <<"a", "b", "c">>, <<>>, <<"4", "2", "a", "b", "c">>, <<"U+0663">> }

ResponseLines ==
    { TestSuffix \o <<":">> \o c : c \in CountTexts }
        \cup { OtherSuffix \o <<":", "2">>,
               \* a field one character longer than a suffix, ending with one
               <<"0">> \o TestSuffix \o <<":", "7">>,
               \* a blank line
               <<>> }

RECURSIVE BodiesOf(_)
BodiesOf(n) ==
    IF n = 0 THEN { <<>> }
    ELSE LET shorter == BodiesOf(n - 1)
         IN  shorter \cup { l \o <<"\n">> \o b : l \in ResponseLines, b \in { x \in shorter : Count(x, "\n") = n - 1 } }

ResponseBodies == BodiesOf(MaxLines)

\* 200 OK and 503 Service Unavailable.
Statuses == { 200, 503 }

(***************************************************************************)
(* The state: the position of one call of check and its local variables,   *)
(* the requests it has put on the network, the response in flight, and the *)
(* password and request of the call before it.                             *)
(***************************************************************************)
VARIABLES
    pc,         \* "idle", "start", "hashed", "sent", "responded", "fetched",
                \* "parsed" or "done"
    password,   \* the argument of check
    hashed,     \* let hash = hash(password): <<prefix, suffix>>
    url,        \* let url
    wire,       \* the requests this call has sent, in order
    status,     \* the status of the response received (0: none)
    body,       \* the body of the response received
    response,   \* let response: the text read from the body
    caps,       \* reg.captures(&response)
    result,     \* what check returns
    lastSent    \* <<[password, request]>> of the previous call, or <<>>

vars ==
    << pc, password, hashed, url, wire, status, body, response, caps, result, lastSent >>

Init ==
    /\ pc = "idle"
    /\ password = <<>>
    /\ hashed = <<>>
    /\ url = <<>>
    /\ wire = <<>>
    /\ status = 0
    /\ body = <<>>
    /\ response = <<>>
    /\ caps = None
    /\ result = NoResult
    /\ lastSent = <<>>

\* A caller invokes check(p).
Call(p) ==
    /\ pc = "idle"
    /\ pc' = "start"
    /\ password' = p
    /\ UNCHANGED << hashed, url, wire, status, body, response, caps, result, lastSent >>

\* let hash = hash(password);
ComputeHash ==
    /\ pc = "start"
    /\ IF hash(password) = Panicked
       THEN /\ result' = Panic
            /\ pc' = "done"
            /\ hashed' = hashed
       ELSE /\ hashed' = hash(password)
            /\ pc' = "hashed"
            /\ result' = result
    /\ UNCHANGED << password, url, wire, status, body, response, caps, lastSent >>

\* let url = format!(...); reqwest::get(&url) sends the request.
SendRequest ==
    /\ pc = "hashed"
    /\ url' = RangeUrl(hashed)
    /\ wire' = Append(wire, GetRequest(url'))
    /\ pc' = "sent"
    /\ UNCHANGED << password, hashed, status, body, response, caps, result, lastSent >>

\* As ConnectFail, with the request sent again after the failure.
ConnectFailRetried ==
    /\ pc = "sent"
    /\ wire' = Append(wire, GetRequest(url))
    /\ UNCHANGED << pc, password, hashed, url, status, body, response, caps, result, lastSent >>

\* reqwest::get(&url).await? is Err: no response arrived.
ConnectFail ==
    /\ pc = "sent"
    /\ result' = ErrReqwest("connect")
    /\ pc' = "done"
    /\ UNCHANGED << password, hashed, url, wire, status, body, response, caps, lastSent >>

\* reqwest::get(&url).await? is Ok(response), whatever the status.
ReceiveResponse ==
    /\ pc = "sent"
    /\ \E st \in Statuses, b \in ResponseBodies :
          /\ status' = st
          /\ body' = b
    /\ pc' = "responded"
    /\ UNCHANGED << password, hashed, url, wire, response, caps, result, lastSent >>

\* .text().await? is Err: the body could not be read.
BodyReadFail ==
    /\ pc = "responded"
    /\ result' = ErrReqwest("body")
    /\ pc' = "done"
    /\ UNCHANGED << password, hashed, url, wire, status, body, response, caps, lastSent >>

\* let response = ... .text().await?;
ReadText ==
    /\ pc = "responded"
    /\ response' = body
    /\ pc' = "fetched"
    /\ UNCHANGED << password, hashed, url, wire, status, body, caps, result, lastSent >>

\* let reg = Regex::new(...)?; reg.captures(&response)
ParseResponse ==
    /\ pc = "fetched"
    /\ IF RegexNewFails(hashed[2])
       THEN /\ result' = ErrRegex
            /\ pc' = "done"
            /\ caps' = caps
       ELSE /\ caps' = RegexCaptures(hashed[2], response)
            /\ pc' = "parsed"
            /\ result' = result
    /\ UNCHANGED << password, hashed, url, wire, status, body, response, lastSent >>

\* The arms of the match.
ClassifyResult ==
    /\ pc = "parsed"
    /\ result' = Classify(caps)
    /\ pc' = "done"
    /\ UNCHANGED << password, hashed, url, wire, status, body, response, caps, lastSent >>

\* check returns: its locals are dropped. What it sent is remembered for
\* the comparison with the next call.
Return ==
    /\ pc = "done"
    /\ pc' = "idle"
    /\ lastSent' = IF wire = <<>> THEN lastSent
                   ELSE << [password |-> password, request |-> wire[1]] >>
    /\ password' = <<>>
    /\ hashed' = <<>>
    /\ url' = <<>>
    /\ wire' = <<>>
    /\ status' = 0
    /\ body' = <<>>
    /\ response' = <<>>
    /\ caps' = None
    /\ result' = NoResult

Next ==
    \/ \E p \in Passwords : Call(p)
    \/ ComputeHash
    \/ SendRequest
    \/ ConnectFail
    \/ ReceiveResponse
    \/ BodyReadFail
    \/ ReadText
    \/ ParseResponse
    \/ ClassifyResult
    \/ Return

Spec == Init /\ [][Next]_vars

(***************************************************************************)
(* Reference values and the vocabulary of the properties: the published    *)
(* SHA-1 digests of the passwords, and a response body read as lines of    *)
(* the form <suffix field>:<count field>.                                  *)
(***************************************************************************)
\* The SHA-1 digest of each password in upper-case hexadecimal, as a
\* reference implementation prints it ("test" is the crate's own example).
RefDigest(p) ==
    CASE p = <<116, 101, 115, 116>> ->
          << "A", "9", "4", "A", "8", "F", "E", "5", "C", "C", "B", "1", "9", "B", "A", "6", "1", "C", "4", "C",
          "0", "8", "7", "3", "D", "3", "9", "1", "E", "9", "8", "7", "9", "8", "2", "F", "B", "B", "D", "3" >>
      [] p = <<55, 112, 50, 53>> ->
          << "A", "9", "4", "A", "8", "7", "8", "6", "C", "6", "E", "2", "B", "7", "3", "6", "C", "1", "6", "2",
          "8", "C", "6", "0", "5", "7", "7", "7", "0", "D", "5", "0", "0", "C", "E", "F", "6", "5", "3", "0" >>
      [] p = <<>> ->
          << "D", "A", "3", "9", "A", "3", "E", "E", "5", "E", "6", "B", "4", "B", "0", "D", "3", "2", "5", "5",
          "B", "F", "E", "F", "9", "5", "6", "0", "1", "8", "9", "0", "A", "F", "D", "8", "0", "7", "0", "9" >>
      [] p = <<97>> ->
          << "8", "6", "F", "7", "E", "4", "3", "7", "F", "A", "A", "5", "A", "7", "F", "C", "E", "1", "5", "D",
          "1", "D", "D", "C", "B", "9", "E", "A", "E", "A", "E", "A", "3", "7", "7", "6", "6", "7", "B", "8" >>

HexAlphabet ==
    { "0", "1", "2", "3", "4", "5", "6", "7", "8", "9", "A", "B", "C", "D", "E", "F" }

\* The position of the first c in text, or 0.
FirstIndex(text, c) ==
    IF \E i \in 1 .. Len(text) : text[i] = c
    THEN CHOOSE i \in 1 .. Len(text) : text[i] = c /\ \A j \in 1 .. i - 1 : text[j] # c
    ELSE 0

\* The lines of a text, without their line feeds and carriage returns.
StripCR(line) ==
    IF line # <<>> /\ line[Len(line)] = "\r" THEN SubSeq(line, 1, Len(line) - 1) ELSE line

RECURSIVE LinesOf(_)
LinesOf(text) ==
    IF text = <<>> THEN <<>>
    ELSE LET k == FirstIndex(text, "\n")
         IN  IF k = 0 THEN << StripCR(text) >>
             ELSE << StripCR(SubSeq(text, 1, k - 1)) >> \o LinesOf(SubSeq(text, k + 1, Len(text)))

HasFields(line) == FirstIndex(line, ":") # 0
SuffixField(line) == SubSeq(line, 1, FirstIndex(line, ":") - 1)
CountField(line) == SubSeq(line, FirstIndex(line, ":") + 1, Len(line))

\* The lines of the text whose whole suffix field is the suffix.
LinesFor(text, suffix) ==
    LET ls == LinesOf(text)
    IN  { ls[i] : i \in { j \in 1 .. Len(ls) : HasFields(ls[j]) /\ SuffixField(ls[j]) = suffix } }

IsDecimal(t) == t # <<>> /\ \A i \in 1 .. Len(t) : t[i] \in AsciiDigits

\* The number a decimal text of at most nine digits writes.
RECURSIVE DecimalValue(_)
DecimalValue(t) ==
    IF t = <<>> THEN 0
    ELSE 10 * DecimalValue(SubSeq(t, 1, Len(t) - 1)) + DigitValue(t[Len(t)])

IsSuccess(st) == st \in 200 .. 299

\* check has returned after a fetch that succeeded: a success status and
\* a body read in full.
ReturnedAfterFetch == pc = "done" /\ IsSuccess(status) /\ result.tag \notin { "Reqwest", "panic" }

Prefix5(p) == SubSeq(RefDigest(p), 1, 5)

(***************************************************************************)
(* The lines of the response that carry the computed suffix, and the       *)
(* positions of a call from the query step on.                             *)
(***************************************************************************)
TheLinesFor == LinesFor(response, hashed[2])

AfterQuery == { "sent", "responded", "fetched", "parsed", "done" }

(***************************************************************************)
(* C1: after a successful fetch, if exactly one line of the body has the   *)
(* computed suffix as its suffix field and its count field is a decimal    *)
(* number N (here of at most nine digits, so that N fits the count's       *)
(* type), check returns Error::Pwned carrying N, whatever the other lines  *)
(* are.                                                                    *)
(***************************************************************************)
C1_SingleMatchingLineIsReported ==
    ReturnedAfterFetch =>
        \A l \in TheLinesFor :
            (TheLinesFor = { l } /\ IsDecimal(CountField(l)) /\ Len(CountField(l)) <= 9)
                => result = ErrPwned(DecimalValue(CountField(l)))

(***************************************************************************)
(* C2: after a successful fetch, if no line of the body has the computed   *)
(* suffix as its suffix field (an empty or blank body included), check     *)
(* returns Ok(()).                                                         *)
(***************************************************************************)
C2_NoMatchingLineIsOk ==
    (ReturnedAfterFetch /\ TheLinesFor = {}) => result = OkUnit

(***************************************************************************)
(* C3: after a successful fetch, if the one line of the body with the      *)
(* computed suffix as its suffix field has a count field that is not a     *)
(* decimal number, check returns Error::Parse.                             *)
(***************************************************************************)
C3_NonDecimalCountIsParseError ==
    ReturnedAfterFetch =>
        \A l \in TheLinesFor :
            (TheLinesFor = { l } /\ ~IsDecimal(CountField(l))) => result = ErrParse

(***************************************************************************)
(* C4: a connection error, a non-success status and a body-read failure    *)
(* each end the call with Error::Reqwest, and the body of a non-success    *)
(* response is never read, searched or classified.                         *)
(***************************************************************************)
C4_TransportFailureAborts ==
    /\ (status # 0 /\ ~IsSuccess(status)) =>
            /\ pc \notin { "fetched", "parsed" }
            /\ pc = "done" => result.tag = "Reqwest"
    /\ (pc = "done" /\ status = 0) => result.tag = "Reqwest"
    /\ (pc = "done" /\ status # 0 /\ response = <<>> /\ body # <<>>) => result.tag = "Reqwest"

(***************************************************************************)
(* C6: whenever check returns Error::Pwned, the count it carries is at     *)
(* least 1.                                                                *)
(***************************************************************************)
C6_PwnedCountIsPositive == result.tag = "Pwned" => result.uses >= 1

(***************************************************************************)
(* C9: check returns Error::Pwned only when some line of the body has the  *)
(* computed suffix as its whole suffix field; a line whose field is longer *)
(* and merely ends with the suffix does not count.                         *)
(***************************************************************************)
C9_MatchIsWholeField ==
    (pc = "done" /\ result.tag = "Pwned") => TheLinesFor # {}

(***************************************************************************)
(* C5: every request check sends is GET <base>/range/<prefix> without a    *)
(* body, the prefix being the first five characters of the password's      *)
(* digest and nothing else of it; so two calls whose passwords' digests    *)
(* start with the same five characters send the same request.              *)
(***************************************************************************)
C5_OnlyPrefixOnWire ==
    /\ \A i \in 1 .. Len(wire) :
            wire[i] = [method |-> "GET", url |-> RangeUrlBase \o Prefix5(password), body |-> <<>>]
    /\ (lastSent # <<>> /\ wire # <<>> /\ Prefix5(lastSent[1].password) = Prefix5(password))
            => wire[1] = lastSent[1].request

\* A call for "7p25" has sent its request right after a call for "test":
\* the same prefix, another suffix.
C5_Witness ==
    /\ lastSent # <<>>
    /\ lastSent[1].password = <<116, 101, 115, 116>>
    /\ password = <<55, 112, 50, 53>>
    /\ wire # <<>>
    /\ hashed[2] # TestSuffix
    /\ wire[1] = lastSent[1].request

(***************************************************************************)
(* C7: a call has sent no request before the query step and exactly one    *)
(* from then on, whatever its outcome and whatever the call before it      *)
(* asked.                                                                  *)
(***************************************************************************)
C7_OneNetworkRead ==
    /\ pc \in { "idle", "start", "hashed" } => Len(wire) = 0
    /\ (pc \in AfterQuery /\ result # Panic) => Len(wire) = 1

\* A call has ended with a transport error, right after a call for the
\* same password.
C7_Witness ==
    /\ pc = "done"
    /\ result.tag = "Reqwest"
    /\ lastSent # <<>>
    /\ lastSent[1].password = password
    /\ Len(wire) = 1

(***************************************************************************)
(* C8: for every password, the empty one included, hash returns a prefix   *)
(* of 5 and a suffix of 35 characters, all among 0-9A-F, that together are *)
(* the 40-character upper-case hexadecimal SHA-1 digest of the password,   *)
(* and it never fails.                                                     *)
(***************************************************************************)
C8_HashSplitsDigest ==
    /\ result # Panic
    /\ pc \notin { "idle", "start" } =>
            /\ Len(hashed[1]) = 5
            /\ Len(hashed[2]) = 35
            /\ \A i \in 1 .. 5 : hashed[1][i] \in HexAlphabet
            /\ \A i \in 1 .. 35 : hashed[2][i] \in HexAlphabet
            /\ hashed[1] \o hashed[2] = RefDigest(password)

\* The empty password has been hashed.
C8_Witness ==
    /\ pc = "hashed"
    /\ password = <<>>
    /\ hashed[1] = << "D", "A", "3", "9", "A" >>

(***************************************************************************)
(* C10: a call moves forward only, through Start, Digest Computed, Query   *)
(* Issued, Response Parsed and Result Classified, each at most once; it    *)
(* has an outcome only when it has ended, the outcome is Ok, Pwned, Parse, *)
(* Reqwest or Regex and never a panic, and an Ok, Pwned or Parse outcome   *)
(* comes from the Response Parsed stage alone.                             *)
(***************************************************************************)
StageRank(p) ==
    CASE p = "idle" -> 0
      [] p = "start" -> 1
      [] p = "hashed" -> 2
      [] p = "sent" -> 3
      [] p = "responded" -> 4
      [] p = "fetched" -> 5
      [] p = "parsed" -> 6
      [] p = "done" -> 7

C10_StepIsForward ==
    /\ IF pc' = "idle" THEN pc = "done" ELSE StageRank(pc') > StageRank(pc)
    /\ pc' = "done" => result'.tag \in { "Ok", "Pwned", "Parse", "Reqwest", "Regex" }
    /\ pc' # "done" => result' = NoResult
    /\ result'.tag \in { "Ok", "Pwned", "Parse" } => pc = "parsed"

C10_LinearPipeline == [][C10_StepIsForward]_vars

\* A call has ended with a parse error.
C10_Witness == pc = "done" /\ result = ErrParse
====
